---- MODULE Spec2Model ----
(***************************************************************************)
(* Agency cross-sell analysis (src/app.py): one uploaded book-of-business  *)
(* table is normalised, filtered to three lines of business, classified    *)
(* per customer at agency and at carrier level, rolled up per division,    *)
(* and re-counted for the division the user selects.                       *)
(*                                                                         *)
(* The script runs top to bottom; pc is its position.  A pandas missing    *)
(* value is the string NaN.  Percentages are kept in hundredths of a       *)
(* percent (7000 is 70.00), so round(x, 2) is a rounding to an integer.    *)
(***************************************************************************)
EXTENDS Integers, Sequences, FiniteSets

VARIABLES pc, file, columns, df, agency_summary, selected_agency, totals, arith

vars == <<pc, file, columns, df, agency_summary, selected_agency, totals, arith>>

(* ------------------------------- bounds -------------------------------- *)

\* Longest uploaded table, in rows.
MaxRows == 2

\* Largest count handed to the percentage arithmetic on its own.
MaxCount == 10

(* --------------------------- values and inputs ------------------------- *)

NaN == "NaN"
None == "None"
Monoline == "Monoline"
CrossSold == "Cross-Sold"

Divisions == {"D1", "D2"}
Customers == {"c1", "c2", NaN}
LOBs == {"Homeowners", "Private Passenger Auto", "Umbrella"}
Carriers == {"CarrierA", "CarrierB"}

\* One policy row of the sheet (the columns the computation reads).
Rows == [Division : Divisions, Customer : Customers, LOB : LOBs, Carrier : Carriers]

Tables == UNION {[1..n -> Rows] : n \in 0..MaxRows}

\* Header rows of uploaded sheets: canonical, padded aliases, one that has
\* two Division aliases but no Policy Number column, and one whose carrier
\* column is spelled in lower case.
HeaderSets ==
    { {"Division", "Customer Name", "Line of Business/Non-Premium", "Carrier",
       "Policy Number"},
      {" Agency Name", "Client Name ", "Line of Business", " Parent Company ",
       "Policy Number"},
      {"Agency", "Policy Division", "Client Name", "Line of Business", "Carrier"},
      {"Division", "Customer Name", "Line of Business/Non-Premium", "carrier",
       "Policy Number"} }

(* --------------------------- schema normaliser ------------------------- *)

\* str.strip on the header vocabulary.
Strip(h) ==
    CASE h = " Agency Name" -> "Agency Name"
      [] h = "Client Name " -> "Client Name"
      [] h = " Parent Company " -> "Parent Company"
      [] OTHER -> h

column_map ==
    << [std |-> "Division",
        variants |-> <<"Division", "Agency", "Agency Name", "Policy Division">>],
       [std |-> "Customer Name",
        variants |-> <<"Customer Name", "Client Name">>],
       [std |-> "Line of Business/Non-Premium",
        variants |-> <<"Line of Business/Non-Premium", "Line of Business">>],
       [std |-> "Carrier",
        variants |-> <<"Carrier", "Parent Company">>],
       [std |-> "Policy Number",
        variants |-> <<"Policy Number">>] >>

\* The inner loop: rename the first variant found, then break.
RECURSIVE RenameFirst(_, _, _, _)
RenameFirst(cols, std, variants, i) ==
    IF i > Len(variants) THEN cols
    ELSE IF variants[i] \in cols
         THEN (cols \ {variants[i]}) \cup {std}
         ELSE RenameFirst(cols, std, variants, i + 1)

\* The outer loop over column_map, in its order.
RECURSIVE RenameAll(_, _)
RenameAll(cols, k) ==
    IF k > Len(column_map) THEN cols
    ELSE RenameAll(RenameFirst(cols, column_map[k].std, column_map[k].variants, 1),
                   k + 1)

required_cols ==
    {"Division", "Customer Name", "Line of Business/Non-Premium", "Carrier",
     "Policy Number"}

\* any() where the code has all().
SchemaOkAny(cols) == \E c \in required_cols : c \in cols

SchemaOk(cols) == \A c \in required_cols : c \in cols

(* ------------------------ line-of-business filter ---------------------- *)

AllowedLOBs == {"Homeowners", "Private Passenger Auto", "Mobile Homeowners"}

IsAllowed(r) == r.LOB \in AllowedLOBs

\* The filter left out.
FilterLOBNone(rows) == rows

FilterLOB(rows) == SelectSeq(rows, IsAllowed)

(* --------------------------- customer classifier ----------------------- *)

\* df.groupby("Customer Name"): the rows of one customer, in order.
\* Rows whose key is missing belong to no group.
CustomerGroup(rows, c) ==
    LET Mine(r) == r.Customer = c IN SelectSeq(rows, Mine)

\* The set taken over the Carrier column instead of the line of business.
classifyByCarrier(group) ==
    LET types == {group[i].Carrier : i \in 1..Len(group)}
    IN IF Cardinality(types) > 1 THEN CrossSold ELSE Monoline

\* len(group) where the code has len(types).
classifyByRows(group) ==
    IF Len(group) > 1 THEN CrossSold ELSE Monoline

classify(group) ==
    LET types == {group[i].LOB : i \in 1..Len(group)}
    IN IF Cardinality(types) > 1 THEN CrossSold ELSE Monoline

\* The lines pooled over all carriers instead of taken per carrier.
classify_carrierPooled(group) ==
    LET lines == {group[i].LOB : i \in 1..Len(group)}
    IN IF Cardinality(lines) > 1 THEN CrossSold ELSE Monoline

classify_carrier(group) ==
    LET carriers == {group[i].Carrier : i \in 1..Len(group)} \ {NaN}
        lines_by_carrier ==
            [k \in carriers |->
                {group[i].LOB : i \in {j \in 1..Len(group) : group[j].Carrier = k}}]
    IN IF \E k \in carriers : Cardinality(lines_by_carrier[k]) > 1
       THEN CrossSold ELSE Monoline


\* Each row classified from the rows read so far, not from the whole group.
AccountTypeColumnRunning(rows) ==
    [i \in 1..Len(rows) |->
        IF rows[i].Customer = NaN THEN NaN
        ELSE classify(CustomerGroup(SubSeq(rows, 1, i), rows[i].Customer))]

\* df["Account Type"]: each group's value broadcast to its rows; a row that
\* belongs to no group is left missing by the index alignment.  The result
\* of groupby.apply is taken in the (Customer Name, row label) indexed form
\* that reset_index(level=0, drop=True) turns back into a per-row column.
AccountTypeColumn(rows) ==
    [i \in 1..Len(rows) |->
        IF rows[i].Customer = NaN THEN NaN
        ELSE classify(CustomerGroup(rows, rows[i].Customer))]

\* df["Carrier Account Type"], likewise.
CarrierAccountTypeColumn(rows) ==
    [i \in 1..Len(rows) |->
        IF rows[i].Customer = NaN THEN NaN
        ELSE classify_carrier(CustomerGroup(rows, rows[i].Customer))]

\* The frame after both column assignments.
Classified(rows) ==
    [i \in 1..Len(rows) |->
        [Division |-> rows[i].Division, Customer |-> rows[i].Customer,
         LOB |-> rows[i].LOB, Carrier |-> rows[i].Carrier,
         AccountType |-> AccountTypeColumn(rows)[i],
         CarrierAccountType |-> CarrierAccountTypeColumn(rows)[i]]]

(* ----------------------------- agency aggregator ----------------------- *)

\* df.groupby("Division"): the rows of one division, in order.
DivisionGroup(rows, d) ==
    LET Mine(r) == r.Division = d IN SelectSeq(rows, Mine)

\* Series.nunique(): distinct values, missing ones not counted.
nunique(group) == Cardinality({group[i].Customer : i \in 1..Len(group)} \ {NaN})

\* lambda x: (x == v).sum() over the group's "Account Type" cells.
CountAccountType(group, v) ==
    Cardinality({i \in 1..Len(group) : group[i].AccountType = v})

\* Truncation where the code rounds.
RoundDown(n, d) == n \div d

\* numpy's round: to nearest, ties to even; n >= 0, d > 0.
RoundHalfEven(n, d) ==
    LET q == n \div d
        r == n % d
    IN IF 2 * r < d THEN q
       ELSE IF 2 * r > d THEN q + 1
       ELSE IF q % 2 = 0 THEN q ELSE q + 1

Num(v) == [kind |-> "num", v |-> v]
NaNValue == [kind |-> "nan", v |-> 0]
Inf(sign) == [kind |-> "inf", v |-> sign]

\* (Monoline / Total_Clients * 100).round(2), in hundredths.  Float
\* division by zero raises nothing: 0/0 is NaN, m/0 is inf.
PctMonoline(m, t) ==
    IF t = 0 THEN (IF m = 0 THEN NaNValue ELSE Inf(1))
    ELSE Num(RoundHalfEven(m * 10000, t))

\* 100 - agency_summary["% Monoline"], in hundredths.
PctCrossSold(p) ==
    CASE p.kind = "nan" -> NaNValue
      [] p.kind = "inf" -> Inf(0 - p.v)
      [] OTHER -> Num(10000 - p.v)

SummaryRow(group) ==
    LET t == nunique(group)
        m == CountAccountType(group, Monoline)
        x == CountAccountType(group, CrossSold)
    IN [Total_Clients |-> t, Monoline |-> m, Cross_Sold |-> x,
        PctMonoline |-> PctMonoline(m, t),
        PctCrossSold |-> PctCrossSold(PctMonoline(m, t))]

\* One row per division that has a row in the frame.
AgencySummary(rows) ==
    [d \in {rows[i].Division : i \in 1..Len(rows)} \ {NaN} |->
        SummaryRow(DivisionGroup(rows, d))]

(* -------------------------- selected-division view --------------------- *)

\* GroupBy.first(): the first cell of the group that is not missing.
RECURSIVE FirstValid(_, _)
FirstValid(cells, i) ==
    IF i > Len(cells) THEN NaN
    ELSE IF cells[i] # NaN THEN cells[i]
    ELSE FirstValid(cells, i + 1)

AccountCells(group) == [i \in 1..Len(group) |-> group[i].AccountType]
CarrierCells(group) == [i \in 1..Len(group) |-> group[i].CarrierAccountType]

CustomerKeys(rows) == {rows[i].Customer : i \in 1..Len(rows)} \ {NaN}

\* groupby("Customer Name")["Account Type"].first().value_counts().get(v, 0)
account_counts(agency_df, v) ==
    Cardinality({c \in CustomerKeys(agency_df) :
                    FirstValid(AccountCells(CustomerGroup(agency_df, c)), 1) = v})

\* The cells counted once per row instead of once per customer.
carrier_countsPerRow(agency_df, v) ==
    Cardinality({i \in 1..Len(agency_df) : agency_df[i].CarrierAccountType = v})

\* groupby("Customer Name")["Carrier Account Type"].first().value_counts().get(v, 0)
carrier_counts(agency_df, v) ==
    Cardinality({c \in CustomerKeys(agency_df) :
                    FirstValid(CarrierCells(CustomerGroup(agency_df, c)), 1) = v})

DivisionTotals(agency_df) ==
    [total_clients |-> nunique(agency_df),
     total_monoline |-> account_counts(agency_df, Monoline),
     total_cross_sold |-> account_counts(agency_df, CrossSold),
     total_carrier_mono |-> carrier_counts(agency_df, Monoline),
     total_carrier_cross |-> carrier_counts(agency_df, CrossSold)]

\* The background of one row of the customer breakdown table.
highlight_cross(row) ==
    IF row.AccountType = CrossSold /\ row.CarrierAccountType = CrossSold
    THEN "lightgreen"
    ELSE IF row.AccountType = CrossSold \/ row.CarrierAccountType = CrossSold
         THEN "khaki"
         ELSE ""

(* ------------------------------- the script ---------------------------- *)

NoFile == [headers |-> {}, rows |-> <<>>]
NoSummary == [d \in {} |-> 0]
ArithIdle == [m |-> 0, t |-> 0, done |-> FALSE, pm |-> NaNValue, px |-> NaNValue]

Init ==
    /\ pc = "idle"
    /\ file = NoFile
    /\ columns = {}
    /\ df = <<>>
    /\ agency_summary = NoSummary
    /\ selected_agency = None
    /\ totals = None
    /\ arith = ArithIdle

\* st.file_uploader returns a file; pd.read_excel reads it.
Upload ==
    /\ pc = "idle"
    /\ \E h \in HeaderSets, t \in Tables :
          /\ file' = [headers |-> h, rows |-> t]
          /\ columns' = h
          /\ df' = t
    /\ pc' = "read"
    /\ UNCHANGED <<agency_summary, selected_agency, totals, arith>>

\* Strip the headers, rename the aliases, check the required columns.
Normalize ==
    /\ pc = "read"
    /\ columns' = RenameAll({Strip(h) : h \in columns}, 1)
    /\ pc' = IF SchemaOk(columns') THEN "normalized" ELSE "error"
    /\ UNCHANGED <<file, df, agency_summary, selected_agency, totals, arith>>

Filter ==
    /\ pc = "normalized"
    /\ df' = FilterLOB(df)
    /\ pc' = "filtered"
    /\ UNCHANGED <<file, columns, agency_summary, selected_agency, totals, arith>>

Classify ==
    /\ pc = "filtered"
    /\ df' = Classified(df)
    /\ columns' = columns \cup {"Account Type", "Carrier Account Type"}
    /\ pc' = "classified"
    /\ UNCHANGED <<file, agency_summary, selected_agency, totals, arith>>

Aggregate ==
    /\ pc = "classified"
    /\ agency_summary' = AgencySummary(df)
    /\ pc' = "aggregated"
    /\ UNCHANGED <<file, columns, df, selected_agency, totals, arith>>

\* st.selectbox over the summary's divisions, then the division's counts.
\* Choosing another division reruns the script on the same file and ends here.
Select ==
    /\ pc \in {"aggregated", "selected"}
    /\ \E d \in DOMAIN agency_summary :
          /\ selected_agency' = d
          /\ totals' = DivisionTotals(DivisionGroup(df, d))
    /\ pc' = "selected"
    /\ UNCHANGED <<file, columns, df, agency_summary, arith>>

\* The user removes the file: the next run has nothing to show.
Clear ==
    /\ pc # "idle"
    /\ pc' = "idle"
    /\ file' = NoFile
    /\ columns' = {}
    /\ df' = <<>>
    /\ agency_summary' = NoSummary
    /\ selected_agency' = None
    /\ totals' = None
    /\ UNCHANGED arith

Next == Upload \/ Normalize \/ Filter \/ Classify \/ Aggregate \/ Select \/ Clear

Spec == Init /\ [][Next]_vars

(* ------------------ the percentage arithmetic on its own --------------- *)

\* A division's two counts as the aggregation can produce them: no client
\* means no classified row, hence no Monoline row.
InitPct ==
    /\ pc = "idle"
    /\ file = NoFile
    /\ columns = {}
    /\ df = <<>>
    /\ agency_summary = NoSummary
    /\ selected_agency = None
    /\ totals = None
    /\ \E m \in 0..MaxCount, t \in 0..MaxCount :
          /\ t = 0 => m = 0
          /\ arith = [m |-> m, t |-> t, done |-> FALSE,
                      pm |-> NaNValue, px |-> NaNValue]

\* The two percentage columns of one summary row.
Percentages ==
    /\ ~arith.done
    /\ arith' = [arith EXCEPT !.done = TRUE,
                              !.pm = PctMonoline(arith.m, arith.t),
                              !.px = PctCrossSold(PctMonoline(arith.m, arith.t))]
    /\ UNCHANGED <<pc, file, columns, df, agency_summary, selected_agency, totals>>

NextPct == Percentages

SpecPct == InitPct /\ [][NextPct]_vars

(* ================================ claims =============================== *)

(* C1: in the AgencySummary every division's monolineCount is the number   *)
(* of its distinct customers classified Monoline and crossSoldCount the    *)
(* number classified Cross-Sold, each customer once, so that               *)
(* monolineCount + crossSoldCount = totalClients.                          *)
C1_CountsPerCustomer ==
    pc \in {"aggregated", "selected"} =>
        \A d \in DOMAIN agency_summary :
            LET mine == {i \in 1..Len(df) : df[i].Division = d}
                custs(v) == {df[i].Customer : i \in {j \in mine : df[j].AccountType = v}}
            IN /\ agency_summary[d].Monoline = Cardinality(custs(Monoline))
               /\ agency_summary[d].Cross_Sold = Cardinality(custs(CrossSold))
               /\ agency_summary[d].Monoline + agency_summary[d].Cross_Sold
                      = agency_summary[d].Total_Clients

(* C2: every classified row of a named customer is Cross-Sold exactly when *)
(* the customer's rows of the uploaded table that pass the filter cover    *)
(* more than one line of business, and Monoline when they cover exactly    *)
(* one; only the set of lines counts, not duplicates or row order.         *)
C2_AgencyClassification ==
    pc \in {"classified", "aggregated", "selected"} =>
        \A i \in 1..Len(df) :
            df[i].Customer # NaN =>
                LET kept == {j \in 1..Len(file.rows) :
                                /\ file.rows[j].Customer = df[i].Customer
                                /\ file.rows[j].LOB \in {"Homeowners",
                                       "Private Passenger Auto", "Mobile Homeowners"}}
                    lobs == {file.rows[j].LOB : j \in kept}
                IN /\ df[i].AccountType = CrossSold <=> Cardinality(lobs) > 1
                   /\ df[i].AccountType = Monoline <=> Cardinality(lobs) = 1

\* A customer with two policies of one line is Monoline although it has two rows.
C2_Witness ==
    /\ pc = "classified"
    /\ Len(df) = 2
    /\ df[1].Customer = df[2].Customer
    /\ df[1].Customer # NaN
    /\ df[1].LOB = df[2].LOB
    /\ df[1].AccountType = Monoline
    /\ df[2].AccountType = Monoline

(* C3: every classified row of a named customer is Cross-Sold at carrier   *)
(* level exactly when some carrier holds more than one line of business    *)
(* among the customer's filtered rows, and Monoline otherwise; Homeowners  *)
(* at one carrier and Private Passenger Auto at another is Cross-Sold at   *)
(* agency level and Monoline at carrier level.                             *)
C3_CarrierClassification ==
    pc \in {"classified", "aggregated", "selected"} =>
        \A i \in 1..Len(df) :
            df[i].Customer # NaN =>
                LET kept == {j \in 1..Len(file.rows) :
                                /\ file.rows[j].Customer = df[i].Customer
                                /\ file.rows[j].LOB \in {"Homeowners",
                                       "Private Passenger Auto", "Mobile Homeowners"}}
                    with(k) == {file.rows[j].LOB :
                                   j \in {n \in kept : file.rows[n].Carrier = k}}
                    some == \E k \in {file.rows[j].Carrier : j \in kept} :
                                Cardinality(with(k)) > 1
                IN /\ df[i].CarrierAccountType = (IF some THEN CrossSold ELSE Monoline)
                   /\ (/\ {<<file.rows[j].LOB, file.rows[j].Carrier>> : j \in kept}
                            = {<<"Homeowners", "CarrierA">>,
                               <<"Private Passenger Auto", "CarrierB">>})
                        => /\ df[i].AccountType = CrossSold
                           /\ df[i].CarrierAccountType = Monoline

\* Homeowners at CarrierA and Private Passenger Auto at CarrierB.
C3_Witness ==
    /\ pc = "classified"
    /\ Len(df) = 2
    /\ df[1].Customer = "c1" /\ df[2].Customer = "c1"
    /\ df[1].LOB = "Homeowners" /\ df[1].Carrier = "CarrierA"
    /\ df[2].LOB = "Private Passenger Auto" /\ df[2].Carrier = "CarrierB"
    /\ df[1].AccountType = CrossSold
    /\ df[1].CarrierAccountType = Monoline

(* C4: a load whose headers, stripped and renamed, lack one of the five    *)
(* canonical fields ends in the error state, from which no filter,         *)
(* classification, aggregation or selection step is taken in that run; a   *)
(* load in which every canonical field has an alias among the stripped     *)
(* headers is not rejected.                                                *)
C4_SchemaGate ==
    [][
        LET stripped == {Strip(h) : h \in columns}
            canon == {"Division", "Customer Name", "Line of Business/Non-Premium",
                      "Carrier", "Policy Number"}
            aliases ==
                [c \in canon |->
                    CASE c = "Division" ->
                           {"Division", "Agency", "Agency Name", "Policy Division"}
                      [] c = "Customer Name" -> {"Customer Name", "Client Name"}
                      [] c = "Line of Business/Non-Premium" ->
                           {"Line of Business/Non-Premium", "Line of Business"}
                      [] c = "Carrier" -> {"Carrier", "Parent Company"}
                      [] OTHER -> {"Policy Number"}]
            covered == \A c \in canon : aliases[c] \cap stripped # {}
        IN /\ (pc = "read" /\ pc' \notin {"read", "idle"}) =>
                  /\ pc' = "error" <=> ~(canon \subseteq columns')
                  /\ pc' = "normalized" <=> covered
           /\ pc = "error" =>
                  /\ pc' \in {"error", "idle"}
                  /\ df = file.rows
                  /\ agency_summary = NoSummary
                  /\ selected_agency = None
                  /\ totals = None
    ]_vars

\* A rejected load of a non-empty table that has no Policy Number column.
C4_Witness ==
    /\ pc = "error"
    /\ "Policy Number" \notin columns
    /\ "Division" \in columns
    /\ Len(file.rows) > 0
    /\ df = file.rows

(* C5: every row that reaches classification and aggregation has one of    *)
(* the three allowed lines of business; a customer whose only policies     *)
(* are outside them is in no classified row and in no division's           *)
(* totalClients, and a division with only such rows has no summary row.    *)
C5_FilterClosure ==
    LET allowed == {"Homeowners", "Private Passenger Auto", "Mobile Homeowners"}
        kept == {j \in 1..Len(file.rows) : file.rows[j].LOB \in allowed}
    IN /\ pc \in {"filtered", "classified", "aggregated", "selected"} =>
              /\ \A i \in 1..Len(df) : df[i].LOB \in allowed
              /\ {df[i].Customer : i \in 1..Len(df)}
                     = {file.rows[j].Customer : j \in kept}
              /\ Len(df) = Cardinality(kept)
       /\ pc \in {"aggregated", "selected"} =>
              /\ DOMAIN agency_summary = {file.rows[j].Division : j \in kept}
              /\ \A d \in DOMAIN agency_summary :
                     agency_summary[d].Total_Clients =
                         Cardinality({file.rows[j].Customer :
                                         j \in {n \in kept : file.rows[n].Division = d}}
                                     \ {NaN})

\* c2's only policy is an Umbrella in D2: c2 and D2 are gone from the summary.
C5_Witness ==
    /\ pc = "aggregated"
    /\ Len(file.rows) = 2
    /\ file.rows[1].Customer = "c1" /\ file.rows[1].Division = "D1"
    /\ file.rows[1].LOB = "Homeowners"
    /\ file.rows[2].Customer = "c2" /\ file.rows[2].Division = "D2"
    /\ file.rows[2].LOB = "Umbrella"
    /\ DOMAIN agency_summary = {"D1"}
    /\ agency_summary["D1"].Total_Clients = 1
    /\ Len(df) = 1

(* C6: after classification any two rows with the same customer name       *)
(* carry the same accountType and the same carrierAccountType, also when   *)
(* the customer's rows span several carriers or several divisions.         *)
C6_PerCustomerConstancy ==
    pc \in {"classified", "aggregated", "selected"} =>
        \A i, j \in 1..Len(df) :
            df[i].Customer = df[j].Customer =>
                /\ df[i].AccountType = df[j].AccountType
                /\ df[i].CarrierAccountType = df[j].CarrierAccountType

\* One customer with two lines at two carriers in two divisions.
C6_Witness ==
    /\ pc = "classified"
    /\ Len(df) = 2
    /\ df[1].Customer = "c1" /\ df[2].Customer = "c1"
    /\ df[1].Division # df[2].Division
    /\ df[1].Carrier # df[2].Carrier
    /\ df[1].LOB # df[2].LOB
    /\ df[1].AccountType = CrossSold /\ df[2].AccountType = CrossSold
    /\ df[1].CarrierAccountType = Monoline /\ df[2].CarrierAccountType = Monoline

(* C7: the accountType of a customer's row in a division is computed only  *)
(* from that customer's filtered rows in that division: it is the value    *)
(* the table cut down to the division gives, whatever rows the name has    *)
(* in other divisions.                                                     *)
C7_DivisionLocal ==
    pc \in {"classified", "aggregated", "selected"} =>
        \A i \in 1..Len(df) :
            df[i].Customer # NaN =>
                LET own == {j \in 1..Len(df) :
                               /\ df[j].Customer = df[i].Customer
                               /\ df[j].Division = df[i].Division}
                    lobs == {df[j].LOB : j \in own}
                IN df[i].AccountType =
                       (IF Cardinality(lobs) > 1 THEN CrossSold ELSE Monoline)

(* C8: a division whose totalClients is 0 has pctMonoline = 0.0 and        *)
(* pctCrossSold = 0.0 in the AgencySummary, and no undefined value.        *)
C8_ZeroClientGuard ==
    pc \in {"aggregated", "selected"} =>
        \A d \in DOMAIN agency_summary :
            agency_summary[d].Total_Clients = 0 =>
                /\ agency_summary[d].PctMonoline = Num(0)
                /\ agency_summary[d].PctCrossSold = Num(0)

(* C9: for totalClients > 0, pctMonoline is monolineCount / totalClients   *)
(* * 100 rounded to two decimals and pctCrossSold is 100 - pctMonoline,    *)
(* so the two sum to 100; 7 of 10 gives 70.0 and 30.0.                     *)
C9_AggregateArithmetic ==
    (arith.done /\ arith.t > 0) =>
        LET exact == arith.m * 10000
            err == arith.pm.v * arith.t - exact
        IN /\ arith.pm.kind = "num"
           /\ arith.px.kind = "num"
           /\ 2 * err <= arith.t
           /\ 2 * (0 - err) <= arith.t
           /\ arith.px.v = 10000 - arith.pm.v
           /\ arith.pm.v + arith.px.v = 10000
           /\ (arith.m = 7 /\ arith.t = 10) =>
                  (arith.pm.v = 7000 /\ arith.px.v = 3000)

\* Two of three, where rounding decides the last digit: 66.67 and 33.33.
C9_Witness ==
    /\ arith.done
    /\ arith.m = 2
    /\ arith.t = 3
    /\ arith.pm = Num(6667)
    /\ arith.px = Num(3333)

(* C10: for the selected division the carrier-level counts are taken once  *)
(* per customer: totalCarrierMono + totalCarrierCross is the number of     *)
(* distinct customer names in the division's rows, and that recomputed     *)
(* totalClients equals the totalClients of the division's summary row.     *)
C10_CarrierCounts ==
    pc = "selected" =>
        LET names == {df[i].Customer :
                         i \in {j \in 1..Len(df) : df[j].Division = selected_agency}}
                     \ {NaN}
        IN /\ totals.total_carrier_mono + totals.total_carrier_cross
                  = Cardinality(names)
           /\ totals.total_clients = Cardinality(names)
           /\ totals.total_clients = agency_summary[selected_agency].Total_Clients

\* One customer with two policies in the selected division counts once.
C10_Witness ==
    /\ pc = "selected"
    /\ Len(df) = 2
    /\ df[1].Customer = "c1" /\ df[2].Customer = "c1"
    /\ df[1].Division = selected_agency /\ df[2].Division = selected_agency
    /\ df[1].CarrierAccountType = CrossSold
    /\ totals.total_carrier_cross = 1
    /\ totals.total_carrier_mono = 0
    /\ totals.total_clients = 1

(* C11: on every classified row carrierAccountType = Cross-Sold implies    *)
(* accountType = Cross-Sold, so a row highlighted khaki (exactly one of    *)
(* the two is Cross-Sold) is Cross-Sold at agency level and Monoline at    *)
(* carrier level, never the reverse; and in the selected division          *)
(* totalCarrierCross is at most the number of customers that are           *)
(* Cross-Sold at agency level.                                             *)
C11_CarrierImpliesAgency ==
    /\ pc \in {"classified", "aggregated", "selected"} =>
           \A i \in 1..Len(df) :
               /\ df[i].CarrierAccountType = CrossSold => df[i].AccountType = CrossSold
               /\ highlight_cross(df[i]) = "khaki" =>
                      /\ df[i].AccountType = CrossSold
                      /\ df[i].CarrierAccountType = Monoline
    /\ pc = "selected" =>
           LET mine == {i \in 1..Len(df) : df[i].Division = selected_agency}
               agencyCross == {df[i].Customer :
                                  i \in {j \in mine : df[j].AccountType = CrossSold}}
           IN /\ totals.total_carrier_cross <= Cardinality(agencyCross)
              /\ totals.total_carrier_cross <= totals.total_cross_sold

\* A khaki row in the selected division: its customer is Cross-Sold at agency
\* level only, so the carrier-level count stays below the agency-level one.
C11_Witness ==
    /\ pc = "selected"
    /\ \E i \in 1..Len(df) :
          /\ df[i].Division = selected_agency
          /\ highlight_cross(df[i]) = "khaki"
          /\ df[i].AccountType = CrossSold
          /\ df[i].CarrierAccountType = Monoline
    /\ totals.total_carrier_cross < totals.total_cross_sold

====
